---- MODULE Spec2Model ----
(***************************************************************************)
(* A model of search.py: search_files (the directory scan, the per-keyword *)
(* aggregation and the text output) and save_results_to_excel (the sort,   *)
(* the banding colours and the borders of the detail sheet).               *)
(*                                                                         *)
(* recursive and ignore_case are the options main resolves; search_files  *)
(* has no parameter for either.                                            *)
(*                                                                         *)
(* A string is a sequence of one-character strings; Ord gives the code     *)
(* point that Python's string comparison uses.  An optional value (None or *)
(* a value) is a sequence of length 0 or 1.                                *)
(***************************************************************************)
EXTENDS Integers, Sequences, FiniteSets, TLC

VARIABLES
    recursive,      \* main: recursive = not args.no_recursive
    ignore_case,    \* main: ignore_case = not args.case_sensitive
    keywords,       \* search_files parameter: the ordered keyword list
    output_file,    \* search_files parameter: None or a text file path
    output_excel,   \* search_files parameter: None or a workbook path
    base_exists,    \* whether base_dir names a directory that can be listed
    fs,             \* the files under base_dir: path -> [kind, lines]
    visited,        \* the files os.walk has already yielded
    results,        \* results[keyword] = [hit_count, file_count, files]
    excel_data,     \* the flat list of match records
    warnings,       \* the file paths named by the "could not read" messages
    printed,        \* the result text printed to standard output, if any
    text_file,      \* the result text written to output_file, if any
    workbook,       \* the detail sheet saved by save_results_to_excel, if any
    pc              \* "scan", "render" or "done"

vars == <<recursive, ignore_case, keywords, output_file, output_excel,
          base_exists, fs, visited, results, excel_data, warnings,
          printed, text_file, workbook, pc>>

-----------------------------------------------------------------------------
(* Bounds of the model. *)

MaxKeywords == 2    \* keywords in one run of the scan
MaxLines == 3       \* lines in the files of the scanned tree, taken together
MaxKwLen == 2       \* characters in a keyword given to the matcher
MaxLineLen == 3     \* characters in a line given to the matcher
MaxRecords == 3     \* match records handed to save_results_to_excel

-----------------------------------------------------------------------------
(* Characters and strings. *)

Alphabet == {"a", "A", "+", " "}

WordChars == {"a", "A", "d"}

\* a character without its letter case, as a case-insensitive match compares
Fold(c) == IF c = "A" THEN "a" ELSE c

FoldStr(s) == [i \in 1..Len(s) |-> Fold(s[i])]

Whitespace == {" "}

\* the characters re.escape puts a backslash before
SpecialChars == {"+", " ", "."}

Ord(c) ==
    CASE c = " " -> 32
      [] c = "+" -> 43
      [] c = "." -> 46
      [] c = "/" -> 47
      [] c = "A" -> 65
      [] c = "a" -> 97
      [] c = "d" -> 100

Min(a, b) == IF a < b THEN a ELSE b

Max(a, b) == IF a > b THEN a ELSE b

Range(s) == {s[i] : i \in 1..Len(s)}

SeqsUpTo(S, n) == UNION {[1..m -> S] : m \in 0..n}

\* s < t for Python str: the first differing character decides, a proper
\* prefix is smaller
RECURSIVE StrLess(_, _)
StrLess(s, t) ==
    IF t = <<>> THEN FALSE
    ELSE IF s = <<>> THEN TRUE
    ELSE IF Head(s) = Head(t) THEN StrLess(Tail(s), Tail(t))
    ELSE Ord(Head(s)) < Ord(Head(t))

\* s[a:b] of Python for 0-based a, b >= 0: clipped to the sequence
PySlice(s, a, b) ==
    LET lo == Min(a, Len(s))
        hi == Min(b, Len(s))
    IN  IF lo >= hi THEN <<>> ELSE SubSeq(s, lo + 1, hi)

RECURSIVE LStrip(_)
LStrip(s) ==
    IF s # <<>> /\ Head(s) \in Whitespace THEN LStrip(Tail(s)) ELSE s

RECURSIVE RStrip(_)
RStrip(s) ==
    IF s # <<>> /\ s[Len(s)] \in Whitespace
    THEN RStrip(SubSeq(s, 1, Len(s) - 1)) ELSE s

\* str.strip()
Strip(s) == RStrip(LStrip(s))

-----------------------------------------------------------------------------
(* The line matcher: re.compile(rf'\b{re.escape(keyword)}\b').search(line) *)

RECURSIVE re_escape(_)
re_escape(s) ==
    IF s = <<>> THEN <<>>
    ELSE (IF Head(s) \in SpecialChars THEN <<"\\", Head(s)>> ELSE <<Head(s)>>)
         \o re_escape(Tail(s))

\* the pattern text handed to re.compile
PatternText(keyword) == <<"\\", "b">> \o re_escape(keyword) \o <<"\\", "b">>

\* re.compile: \b is the word-boundary assertion, a backslash before any
\* other character makes it a literal, an unescaped character is a literal
\* (re_escape leaves no metacharacter unescaped)
RECURSIVE re_compile(_)
re_compile(p) ==
    IF p = <<>> THEN <<>>
    ELSE IF Head(p) = "\\" /\ Len(p) >= 2
         THEN (IF p[2] = "b" THEN <<[kind |-> "boundary", ch |-> ""]>>
                             ELSE <<[kind |-> "literal", ch |-> p[2]]>>)
              \o re_compile(Tail(Tail(p)))
         ELSE <<[kind |-> "literal", ch |-> Head(p)]>> \o re_compile(Tail(p))

\* whether the character at 1-based position i of line is a word character;
\* outside the line there is none
IsWordAt(line, i) == i >= 1 /\ i <= Len(line) /\ line[i] \in WordChars

\* \b after pos consumed characters: exactly one side is a word character
AtBoundary(line, pos) == IsWordAt(line, pos) # IsWordAt(line, pos + 1)

\* the tokens from the k-th on match the line after pos consumed characters
RECURSIVE MatchFrom(_, _, _, _)
MatchFrom(toks, k, line, pos) ==
    IF k > Len(toks) THEN TRUE
    ELSE IF toks[k].kind = "boundary"
         THEN AtBoundary(line, pos) /\ MatchFrom(toks, k + 1, line, pos)
         ELSE /\ pos < Len(line)
              /\ line[pos + 1] = toks[k].ch
              /\ MatchFrom(toks, k + 1, line, pos + 1)

\* pattern.search(line)
PatternSearch(toks, line) == \E pos \in 0..Len(line) : MatchFrom(toks, 1, line, pos)

\* keyword_patterns[j] applied to a line
LineHits(keyword, line) == PatternSearch(re_compile(PatternText(keyword)), line)

-----------------------------------------------------------------------------
(* The directory tree that os.walk(base_dir) lists. *)

base_dir == <<".">>

\* a file of the tree: the directory holding it, relative to base_dir (<<>>
\* is base_dir itself), and its name
Entries == {[dir |-> <<>>, name |-> <<"a">>], [dir |-> <<"d">>, name |-> <<"a">>]}

\* os.path.join(a, b)
PathJoin(a, b) == a \o <<"/">> \o b

\* the root os.walk yields for a directory of the tree
WalkRoot(dir) == IF dir = <<>> THEN base_dir ELSE PathJoin(base_dir, dir)

\* os.path.relpath(path, start) for a path below start: the part after
\* start and the separator
RelPath(path, start) ==
    IF Len(path) > Len(start) + 1
       /\ SubSeq(path, 1, Len(start)) = start
       /\ path[Len(start) + 1] = "/"
    THEN SubSeq(path, Len(start) + 2, Len(path))
    ELSE path

FilePath(e) == PathJoin(WalkRoot(e.dir), e.name)

RelativeFilePath(e) == RelPath(FilePath(e), base_dir)

\* the files os.walk yields: every file of the tree, at any depth; a base
\* directory that cannot be listed yields nothing (os.walk ignores the error)
WalkFiles(tree, exists) ==
    IF exists THEN {e \in DOMAIN tree : tree[e].kind # "absent"} ELSE {}

\* os.walk is top-down: the files of base_dir come before those of its
\* subdirectories
WalkNext(todo) ==
    {e \in todo : e.dir = <<>> \/ ~ \E o \in todo : o.dir = <<>>}

-----------------------------------------------------------------------------
(* search_files: the scan of one file. *)

\* the context window of a hit on the line with 0-based index i of n lines
WindowStart(i) == Max(i - 2, 0)

\* the window of a scan that stops one line early: min(i + 2, len(lines))
WindowEndShort(i, n) == Min(i + 2, n)

WindowEnd(i, n) == Min(i + 3, n)

\* d[key] = val on a dict kept as a sequence of [file, hits] in insertion
\* order: an existing key keeps its place
DictSet(d, key, val) ==
    IF \E x \in 1..Len(d) : d[x].file = key
    THEN [x \in 1..Len(d) |-> IF d[x].file = key THEN [file |-> key, hits |-> val] ELSE d[x]]
    ELSE Append(d, [file |-> key, hits |-> val])

EmptySummary == [hit_count |-> 0, file_count |-> 0, files |-> <<>>]

\* the body of the two inner loops for line index i (0-based) and the j-th
\* keyword; acc holds results, file_hits, file_results and excel_data
HitStep(acc, lns, kws, rel, i, j) ==
    LET keyword == kws[j]
        line == lns[i + 1]
        hit_line == Strip(line)
        start == WindowStart(i)
        end == WindowEnd(i, Len(lns))
        full_context == PySlice(lns, start, end)
    IN  IF LineHits(keyword, line)
        THEN [results |-> [acc.results EXCEPT ![keyword].hit_count = @ + 1],
              file_hits |-> [acc.file_hits EXCEPT ![keyword] = @ + 1],
              file_results |-> [acc.file_results EXCEPT ![keyword] =
                  Append(@, [file |-> rel, line |-> i + 1, text |-> hit_line])],
              excel_data |-> Append(acc.excel_data,
                  [keyword |-> keyword, file |-> rel, line |-> i + 1,
                   hit_line |-> hit_line, context |-> full_context])]
        ELSE acc

\* the first t iterations of "for i, line ...: for keyword, pattern ..."
RECURSIVE ScanLines(_, _, _, _, _)
ScanLines(acc, lns, kws, rel, t) ==
    IF t = 0 THEN acc
    ELSE HitStep(ScanLines(acc, lns, kws, rel, t - 1), lns, kws, rel,
                 (t - 1) \div Len(kws), ((t - 1) % Len(kws)) + 1)

\* the j-th iteration of "for keyword in keywords: if file_hits[keyword] > 0"
RegisterStep(res, file_hits, file_results, kws, rel, j) ==
    LET keyword == kws[j]
    IN  IF file_hits[keyword] > 0
        THEN [res EXCEPT ![keyword].file_count = @ + 1,
                         ![keyword].files = DictSet(@, rel, file_results[keyword])]
        ELSE res

RECURSIVE RegisterFile(_, _, _, _, _, _)
RegisterFile(res, file_hits, file_results, kws, rel, j) ==
    IF j = 0 THEN res
    ELSE RegisterStep(RegisterFile(res, file_hits, file_results, kws, rel, j - 1),
                      file_hits, file_results, kws, rel, j)

\* the try block for one readable file: results and excel_data afterwards
ScanOneFile(res, data, lns, kws, rel) ==
    LET acc0 == [results |-> res,
                 file_hits |-> [k \in Range(kws) |-> 0],
                 file_results |-> [k \in Range(kws) |-> <<>>],
                 excel_data |-> data]
        acc == ScanLines(acc0, lns, kws, rel, Len(lns) * Len(kws))
    IN  [results |-> RegisterFile(acc.results, acc.file_hits, acc.file_results,
                                  kws, rel, Len(kws)),
         excel_data |-> acc.excel_data]

-----------------------------------------------------------------------------
(* save_results_to_excel: the sort of the detail records. *)

\* (x[1], x[0]) < (y[1], y[0]): the file decides, then the keyword
KeyLess(x, y) ==
    \/ StrLess(x.file, y.file)
    \/ x.file = y.file /\ StrLess(x.keyword, y.keyword)

\* an insertion in front of the elements with an equal key: an unstable sort
InsertPosBeforeEqual(s, x) == Cardinality({i \in 1..Len(s) : KeyLess(s[i], x)})

\* where sorted() puts x among the already sorted s: behind every element
\* whose key is not greater, so that equal keys keep their order
InsertPos(s, x) == Cardinality({i \in 1..Len(s) : ~ KeyLess(x, s[i])})

InsertSorted(s, x) ==
    LET p == InsertPos(s, x)
    IN  SubSeq(s, 1, p) \o <<x>> \o SubSeq(s, p + 1, Len(s))

\* sorted(excel_data, key=lambda x: (x[1], x[0]))
RECURSIVE SortedData(_)
SortedData(data) ==
    IF data = <<>> THEN <<>>
    ELSE InsertSorted(SortedData(SubSeq(data, 1, Len(data) - 1)), data[Len(data)])

-----------------------------------------------------------------------------
(* save_results_to_excel: the banding colours. *)

color_a1 == "BBDEFB"

color_a2 == "E3F2FD"

color_b1 == "FFCC80"

color_b2 == "FFF3E0"

\* a file colour that ignores the toggle
FileBandFixed(file_toggle) == color_a1

FileBand(file_toggle) == IF file_toggle THEN color_a1 ELSE color_a2

KeywordBand(keyword_toggle) == IF keyword_toggle THEN color_b1 ELSE color_b2

\* d[key] = val on a dict kept as a function
Put(d, key, val) == [k \in DOMAIN d \cup {key} |-> IF k = key THEN val ELSE d[k]]

BandInit ==
    [current_file |-> <<>>, file_toggle |-> FALSE, file_colors |-> <<>>,
     keyword_colors |-> <<>>, keyword_toggle |-> FALSE]

\* one iteration of the colour loop; b holds the loop's variables
BandStep(b, row_data) ==
    LET keyword == row_data.keyword
        file_path == row_data.file
        b1 == IF b.current_file # <<file_path>>
              THEN [current_file |-> <<file_path>>,
                    file_toggle |-> ~ b.file_toggle,
                    file_colors |-> Put(b.file_colors, file_path, FileBand(~ b.file_toggle)),
                    keyword_colors |-> Put(b.keyword_colors, file_path, <<>>),
                    keyword_toggle |-> FALSE]
              ELSE b
    IN  IF keyword \notin DOMAIN b1.keyword_colors[file_path]
        THEN [b1 EXCEPT !.keyword_toggle = ~ b1.keyword_toggle,
                        !.keyword_colors[file_path] =
                            Put(@, keyword, KeywordBand(~ b1.keyword_toggle))]
        ELSE b1

RECURSIVE BandingPass(_, _)
BandingPass(sorted, n) ==
    IF n = 0 THEN BandInit ELSE BandStep(BandingPass(sorted, n - 1), sorted[n])

-----------------------------------------------------------------------------
(* save_results_to_excel: the rows of the detail sheet and their borders.  *)

Columns == 1..5

\* the top border of a row: medium where the file differs from the row above
BorderType(current_file, file_path) ==
    IF current_file # <<>> /\ <<file_path>> # current_file THEN "medium" ELSE "thin"

\* the border given to the cells of the row being appended
CurrentRowBorder(col, border_type) ==
    [left |-> IF col = 1 THEN "medium" ELSE "none",
     right |-> IF col = 5 THEN "medium" ELSE "none",
     top |-> border_type,
     bottom |-> "none"]

\* the border of the row above, rewritten to carry the bottom edge
PreviousRowBorder(current_border, col, border_type) ==
    [left |-> IF col = 1 THEN "medium" ELSE current_border.left,
     right |-> IF col = 5 THEN "medium" ELSE current_border.right,
     top |-> current_border.top,
     bottom |-> border_type]

\* the border assigned to the cells of the last row after the loop
LastRowBorder(col) ==
    [left |-> IF col = 1 THEN "medium" ELSE "none",
     right |-> IF col = 5 THEN "medium" ELSE "none",
     top |-> "none",
     bottom |-> "medium"]

\* one iteration of the row loop for the j-th sorted record; w holds
\* current_file, current_keyword and the rows written so far
RowStep(w, row_data, j, band) ==
    LET keyword == row_data.keyword
        file_path == row_data.file
        border_type == BorderType(w.current_file, file_path)
        above == IF j > 1
                 THEN [w.rows EXCEPT ![j - 1].border =
                          [col \in Columns |-> PreviousRowBorder(@[col], col, border_type)]]
                 ELSE w.rows
        row == [data |-> row_data,
                border |-> [col \in Columns |-> CurrentRowBorder(col, border_type)],
                file_fill |-> band.file_colors[file_path],
                keyword_fill |-> band.keyword_colors[file_path][keyword]]
    IN  [current_file |-> <<file_path>>, current_keyword |-> <<keyword>>,
         rows |-> Append(above, row)]

RECURSIVE RowPass(_, _, _)
RowPass(sorted, n, band) ==
    IF n = 0 THEN [current_file |-> <<>>, current_keyword |-> <<>>, rows |-> <<>>]
    ELSE RowStep(RowPass(sorted, n - 1, band), sorted[n], n, band)

\* "if len(sorted_excel_data) > 0": the bottom edge of the table
LastRowPass(rows) ==
    IF Len(rows) > 0
    THEN [rows EXCEPT ![Len(rows)].border = [col \in Columns |-> LastRowBorder(col)]]
    ELSE rows

\* the keys of the results dict in insertion order: the keywords without
\* their repetitions
RECURSIVE DictKeys(_)
DictKeys(kws) ==
    IF kws = <<>> THEN <<>>
    ELSE LET front == DictKeys(SubSeq(kws, 1, Len(kws) - 1))
             last == kws[Len(kws)]
         IN  IF last \in Range(front) THEN front ELSE Append(front, last)

\* the data rows of the summary sheet
SummaryRows(kws, res) ==
    [j \in 1..Len(DictKeys(kws)) |->
        LET keyword == DictKeys(kws)[j]
        IN  [keyword |-> keyword, hit_count |-> res[keyword].hit_count,
             file_count |-> res[keyword].file_count]]

\* the data rows of the detail sheet
DetailRows(data) ==
    LET sorted_excel_data == SortedData(data)
        n == Len(sorted_excel_data)
        band == BandingPass(sorted_excel_data, n)
    IN  LastRowPass(RowPass(sorted_excel_data, n, band).rows)

\* the workbook save_results_to_excel saves
RenderWorkbook(kws, res, data) ==
    [summary |-> SummaryRows(kws, res), details |-> DetailRows(data)]

-----------------------------------------------------------------------------
(* search_files: the result text. *)

TextLine(tag, text, num) == [tag |-> tag, text |-> text, num |-> num]

\* the lines appended for one entry of results[keyword]['files']
FileLines(entry) ==
    <<TextLine("file", entry.file, 0)>>
    \o [x \in 1..Len(entry.hits) |->
           TextLine("hit", entry.hits[x].text, entry.hits[x].line)]
    \o <<TextLine("blank", <<>>, 0)>>

RECURSIVE FilesLines(_)
FilesLines(files) ==
    IF files = <<>> THEN <<>> ELSE FileLines(Head(files)) \o FilesLines(Tail(files))

\* output_lines: "for keyword in keywords", repetitions included
RECURSIVE OutputLines(_, _)
OutputLines(kws, res) ==
    IF kws = <<>> THEN <<>>
    ELSE LET keyword == Head(kws)
         IN  <<TextLine("keyword", keyword, 0),
               TextLine("hit_count", <<>>, res[keyword].hit_count),
               TextLine("file_count", <<>>, res[keyword].file_count),
               TextLine("blank", <<>>, 0)>>
             \o FilesLines(res[keyword].files)
             \o OutputLines(Tail(kws), res)

-----------------------------------------------------------------------------
(* The inputs of a run. *)

ScanKeywords == {<<"a">>, <<"A">>}

FileLineSet == {<<"a">>, <<"A">>}

Absent == [kind |-> "absent", lines |-> <<>>]

Unreadable == [kind |-> "unreadable", lines |-> <<>>]

TextFile(lns) == [kind |-> "text", lines |-> lns]

FileStates(Lns, n) == {Absent, Unreadable} \cup {TextFile(l) : l \in SeqsUpTo(Lns, n)}

\* the output paths a caller may give
TextPath == <<"a">>

ExcelPath == <<"A">>

\* results = {keyword: {'hit_count': 0, 'file_count': 0, 'files': {}} ...}
InitResults(kws) == [k \in Range(kws) |-> EmptySummary]

\* the state search_files starts the walk in
Started ==
    /\ visited = {}
    /\ results = InitResults(keywords)
    /\ excel_data = <<>>
    /\ warnings = <<>>
    /\ printed = <<>>
    /\ text_file = <<>>
    /\ workbook = <<>>
    /\ pc = "scan"

\* the keyword lists of a run
KeywordLists == SeqsUpTo(ScanKeywords, MaxKeywords)

RECURSIVE TotalLines(_, _)
TotalLines(tree, S) ==
    IF S = {} THEN 0
    ELSE LET e == CHOOSE x \in S : TRUE
         IN  Len(tree[e].lines) + TotalLines(tree, S \ {e})

\* the trees of a run: each file of Entries is absent, unreadable or a text
\* file, with up to MaxLines lines in the whole tree
Trees ==
    {t \in [Entries -> FileStates(FileLineSet, MaxLines)] :
        TotalLines(t, Entries) <= MaxLines}

EmptyTree == [e \in Entries |-> Absent]

\* a run of search_files over a tree of up to two files; the case option
\* keeps its default (it is drawn in MatchInit)
Init ==
    /\ recursive \in BOOLEAN
    /\ ignore_case = TRUE
    /\ keywords \in KeywordLists
    /\ output_file \in {<<>>, <<TextPath>>}
    /\ output_excel \in {<<>>, <<ExcelPath>>}
    /\ base_exists \in BOOLEAN
    /\ fs \in (IF base_exists THEN Trees ELSE {EmptyTree})
    /\ Started

-----------------------------------------------------------------------------
(* search_files: the actions. *)

Remaining == WalkFiles(fs, base_exists) \ visited

\* one iteration of "for file in files" on a file that opens and reads
ScanFile(e) ==
    /\ pc = "scan"
    /\ e \in WalkNext(Remaining)
    /\ fs[e].kind = "text"
    /\ LET lines == fs[e].lines
           after == ScanOneFile(results, excel_data, lines, keywords,
                                RelativeFilePath(e))
       IN  /\ results' = after.results
           /\ excel_data' = after.excel_data
    /\ visited' = visited \cup {e}
    /\ UNCHANGED <<recursive, ignore_case, keywords, output_file, output_excel,
                   base_exists, fs, warnings, printed, text_file, workbook, pc>>

\* the try statement put around the whole walk instead of one file: the
\* first unreadable file is reported and ends the walk
SkipFileEndsWalk(e) ==
    /\ pc = "scan"
    /\ e \in WalkNext(Remaining)
    /\ fs[e].kind = "unreadable"
    /\ warnings' = Append(warnings, FilePath(e))
    /\ visited' = WalkFiles(fs, base_exists)
    /\ UNCHANGED <<recursive, ignore_case, keywords, output_file, output_excel,
                   base_exists, fs, results, excel_data, printed,
                   text_file, workbook, pc>>

\* one iteration on a file whose open or read raises: the except clause
SkipFile(e) ==
    /\ pc = "scan"
    /\ e \in WalkNext(Remaining)
    /\ fs[e].kind = "unreadable"
    /\ warnings' = Append(warnings, FilePath(e))
    /\ visited' = visited \cup {e}
    /\ UNCHANGED <<recursive, ignore_case, keywords, output_file, output_excel,
                   base_exists, fs, results, excel_data, printed,
                   text_file, workbook, pc>>

\* the rest of search_files once the walk is exhausted: the result text,
\* then the workbook
Finish ==
    /\ pc = "scan"
    /\ Remaining = {}
    /\ LET result_text == OutputLines(keywords, results)
       IN  IF output_file # <<>>
           THEN text_file' = <<result_text>> /\ printed' = printed
           ELSE printed' = <<result_text>> /\ text_file' = text_file
    /\ workbook' = IF output_excel # <<>>
                   THEN <<RenderWorkbook(keywords, results, excel_data)>>
                   ELSE workbook
    /\ pc' = "done"
    /\ UNCHANGED <<recursive, ignore_case, keywords, output_file, output_excel,
                   base_exists, fs, visited, results, excel_data, warnings>>

Next ==
    \/ \E e \in Entries : ScanFile(e)
    \/ \E e \in Entries : SkipFile(e)
    \/ Finish

Spec == Init /\ [][Next]_vars

-----------------------------------------------------------------------------
(* The matcher on one line: a run over a tree with a single one-line file. *)

MatchKeywords == SeqsUpTo(Alphabet, MaxKwLen) \ {<<>>}

MatchLines == SeqsUpTo(Alphabet, MaxLineLen)

TopFile == [dir |-> <<>>, name |-> <<"a">>]

OneLineTrees ==
    {[e \in Entries |-> IF e = TopFile THEN f ELSE Absent] :
        f \in {Unreadable} \cup {TextFile(<<l>>) : l \in MatchLines}}

MatchInit ==
    /\ recursive = TRUE
    /\ ignore_case \in BOOLEAN
    /\ keywords \in {<<k>> : k \in MatchKeywords}
    /\ output_file = <<>>
    /\ output_excel = <<>>
    /\ base_exists = TRUE
    /\ fs \in OneLineTrees
    /\ Started

MatchSpec == MatchInit /\ [][Next]_vars

-----------------------------------------------------------------------------
(* save_results_to_excel called with a list of match records. *)

RenderKeywords == {<<"a">>, <<"A">>}

RenderFiles == {<<"A">>, <<"a">>, <<"a", "a">>}

RenderLineNumbers == {1, 2}

RenderRecords ==
    {[keyword |-> k, file |-> f, line |-> n, hit_line |-> k, context |-> <<k>>] :
        k \in RenderKeywords, f \in RenderFiles, n \in RenderLineNumbers}

RecordLists == SeqsUpTo(RenderRecords, MaxRecords)

RenderInit ==
    /\ recursive = TRUE
    /\ ignore_case = TRUE
    /\ keywords = <<>>
    /\ output_file = <<>>
    /\ output_excel = <<ExcelPath>>
    /\ base_exists = TRUE
    /\ fs = EmptyTree
    /\ visited = {}
    /\ results = InitResults(keywords)
    /\ excel_data \in RecordLists
    /\ warnings = <<>>
    /\ printed = <<>>
    /\ text_file = <<>>
    /\ workbook = <<>>
    /\ pc = "render"

\* save_results_to_excel(output_excel, results, excel_data)
SaveResultsToExcel ==
    /\ pc = "render"
    /\ workbook' = <<RenderWorkbook(keywords, results, excel_data)>>
    /\ pc' = "done"
    /\ UNCHANGED <<recursive, ignore_case, keywords, output_file, output_excel,
                   base_exists, fs, visited, results, excel_data, warnings,
                   printed, text_file>>

RenderNext == SaveResultsToExcel

RenderSpec == RenderInit /\ [][RenderNext]_vars

-----------------------------------------------------------------------------
(* Properties of the scan. *)

\* the match records of keyword k
RecordsOf(k) == {x \in 1..Len(excel_data) : excel_data[x].keyword = k}

\* the file of the tree with the given relative path
EntryOf(rel) == CHOOSE e \in Entries : RelativeFilePath(e) = rel

AllFilesWalked == (pc = "scan" /\ Remaining = {}) \/ pc = "done"

\* C1: once the scan has finished, every keyword k has
\* file_count(k) <= hit_count(k), and file_count(k) is the number of
\* distinct relative paths among the match records of k.
C1_FileCount ==
    AllFilesWalked =>
        \A k \in Range(keywords) :
            /\ results[k].file_count <= results[k].hit_count
            /\ results[k].file_count =
                   Cardinality({excel_data[x].file : x \in RecordsOf(k)})

\* an occurrence of the literal text kw in line with no word character
\* immediately before or after it
WholeWordOccurs(kw, line) ==
    \E p \in 0..(Len(line) - Len(kw)) :
        /\ SubSeq(line, p + 1, p + Len(kw)) = kw
        /\ ~ IsWordAt(line, p)
        /\ ~ IsWordAt(line, p + Len(kw) + 1)

\* the single line of the single file of a matcher run
MatchedLine == fs[TopFile].lines[1]

MatcherRan == pc = "done" /\ fs[TopFile].kind = "text"

\* the keyword produced a hit and a match record
HitAndRecord(k) == results[k].hit_count > 0 /\ RecordsOf(k) # {}

\* C2: for a keyword made of word characters and a line that contains it as
\* a whole word only in another letter case, the line is a hit, with a match
\* record, exactly when the run's option is case-insensitive.
C2_CaseOption ==
    MatcherRan =>
        \A k \in Range(keywords) :
            ( /\ Range(k) \subseteq WordChars
              /\ WholeWordOccurs(FoldStr(k), FoldStr(MatchedLine))
              /\ ~ WholeWordOccurs(k, MatchedLine) )
            => (ignore_case <=> HitAndRecord(k))

IsDirectChild(rel) == "/" \notin Range(rel)

\* C3: a recursive run scans every file under the base directory; in a
\* non-recursive run no file of a subdirectory contributes a match record or
\* an entry of a keyword's files mapping.
C3_RecursionFlag ==
    /\ (recursive /\ pc = "done") => visited = WalkFiles(fs, base_exists)
    /\ ~ recursive =>
          /\ \A x \in 1..Len(excel_data) : IsDirectChild(excel_data[x].file)
          /\ \A k \in Range(keywords) : \A x \in 1..Len(results[k].files) :
                 IsDirectChild(results[k].files[x].file)

\* C4: when the base directory does not exist, the run produces no summary
\* text, no text file and no workbook.
C4_InvalidBaseDir ==
    ~ base_exists => printed = <<>> /\ text_file = <<>> /\ workbook = <<>>

\* the tree with its unreadable files taken away
WithoutUnreadable(tree) ==
    [e \in DOMAIN tree |-> IF tree[e].kind = "unreadable" THEN Absent ELSE tree[e]]

\* the results and records of scanning the files todo of a tree, none of
\* them unreadable, in walk order
RECURSIVE ScanTree(_, _, _, _)
ScanTree(tree, todo, res, data) ==
    IF todo = {} THEN [results |-> res, excel_data |-> data]
    ELSE LET e == CHOOSE x \in WalkNext(todo) : TRUE
             after == ScanOneFile(res, data, tree[e].lines, keywords,
                                  RelativeFilePath(e))
         IN  ScanTree(tree, todo \ {e}, after.results, after.excel_data)

UnreadableFiles == {e \in WalkFiles(fs, base_exists) : fs[e].kind = "unreadable"}

\* C5: the scan visits every file and completes whichever files cannot be
\* read; each unreadable file is named by exactly one warning, has no match
\* record and no entry in a keyword's files mapping, and the results and
\* records are those of the same tree without the unreadable files.
C5_UnreadableSkipped ==
    /\ pc \in {"scan", "done"}
    /\ pc = "done" =>
          /\ visited = WalkFiles(fs, base_exists)
          /\ Len(warnings) = Cardinality(UnreadableFiles)
          /\ Range(warnings) = {FilePath(e) : e \in UnreadableFiles}
          /\ \A e \in UnreadableFiles :
                /\ \A x \in 1..Len(excel_data) :
                       excel_data[x].file # RelativeFilePath(e)
                /\ \A k \in Range(keywords) : \A x \in 1..Len(results[k].files) :
                       results[k].files[x].file # RelativeFilePath(e)
          /\ [results |-> results, excel_data |-> excel_data] =
                 ScanTree(WithoutUnreadable(fs),
                          WalkFiles(WithoutUnreadable(fs), base_exists),
                          InitResults(keywords), <<>>)

\* an unreadable file was walked before a file that contributed records
C5_Witness ==
    /\ pc = "done"
    /\ fs[TopFile].kind = "unreadable"
    /\ warnings = <<FilePath(TopFile)>>
    /\ excel_data # <<>>

\* C6: a line is a hit for a keyword exactly when it contains the keyword's
\* literal text with no word character immediately before or after it, also
\* for keywords that begin or end with a non-word character.
C6_WholeWordLiteral ==
    MatcherRan =>
        \A k \in Range(keywords) :
            HitAndRecord(k) <=> WholeWordOccurs(k, MatchedLine)

\* the number of lines of the file a record comes from
LinesOfFile(r) == Len(fs[EntryOf(r.file)].lines)

-----------------------------------------------------------------------------
(* Properties of the detail sheet. *)

Rendered == pc = "done" /\ workbook # <<>>

Details == workbook[1].details

\* the row begins a file group
StartsFileGroup(j) == j = 1 \/ Details[j - 1].data.file # Details[j].data.file

DetailData == [j \in 1..Len(Details) |-> Details[j].data]

\* C8: rows of the same file have the same file colour, rows of the same
\* file and keyword have the same keyword colour, and adjacent rows of
\* different files have different file colours.
C8_Banding ==
    Rendered =>
        /\ Len(Details) = Len(excel_data)
        /\ \A i, j \in 1..Len(Details) :
              /\ Details[i].data.file = Details[j].data.file
                    => Details[i].file_fill = Details[j].file_fill
              /\ ( /\ Details[i].data.file = Details[j].data.file
                   /\ Details[i].data.keyword = Details[j].data.keyword )
                    => Details[i].keyword_fill = Details[j].keyword_fill
              /\ (j = i + 1 /\ Details[i].data.file # Details[j].data.file)
                    => Details[i].file_fill # Details[j].file_fill

\* three file groups in a row, handed over out of order
C8_Witness ==
    /\ Rendered
    /\ Len(Details) = 3
    /\ Cardinality({Details[j].data.file : j \in 1..3}) = 3
    /\ DetailData # excel_data

\* C9: the first row of every file group, the first of the table and one
\* that is the last row of the table included, has a medium top border.
C9_FileGroupBorder ==
    Rendered =>
        \A j \in 1..Len(Details) :
            StartsFileGroup(j) =>
                \A col \in Columns : Details[j].border[col].top = "medium"

SameKey(x, y) == x.file = y.file /\ x.keyword = y.keyword

\* the records of s with the file and keyword of r, in their order in s
WithKeyOf(r, s) == SelectSeq(s, LAMBDA x : SameKey(x, r))

\* C10: the rows of the detail sheet are the match records in ascending
\* order of file path, then keyword; records with the same file and keyword
\* keep the order the scan produced them in, none dropped or duplicated.
C10_StableSort ==
    Rendered =>
        /\ Len(DetailData) = Len(excel_data)
        /\ \A i, j \in 1..Len(DetailData) :
              i < j =>
                 \/ StrLess(DetailData[i].file, DetailData[j].file)
                 \/ /\ DetailData[i].file = DetailData[j].file
                    /\ ~ StrLess(DetailData[j].keyword, DetailData[i].keyword)
        /\ \A r \in Range(excel_data) :
              WithKeyOf(r, DetailData) = WithKeyOf(r, excel_data)

\* the sort moved a record, and two records with the same file and keyword
\* arrived with the higher line number first
C10_Witness ==
    /\ Rendered
    /\ DetailData # excel_data
    /\ \E i, j \in 1..Len(excel_data) :
          /\ i < j
          /\ SameKey(excel_data[i], excel_data[j])
          /\ excel_data[i].line > excel_data[j].line

====
